---- MODULE Spec2Model ----
EXTENDS Integers, Sequences, FiniteSets, TLC

(***************************************************************************)
(* Model of the log parser (src/src/parser.py) and of the analytics engine *)
(* (src/src/analyzer.py).  A Python str is a sequence of one-character     *)
(* strings; Python's None is the string "None" where the other values are  *)
(* strings, and a tagged record elsewhere.                                 *)
(***************************************************************************)

None == "None"

DigitSeq == <<"0","1","2","3","4","5","6","7","8","9">>
UpperSeq == <<"A","B","C","D","E","F","G","H","I","J","K","L","M","N","O","P","Q","R","S","T","U","V","W","X","Y","Z">>
LowerSeq == <<"a","b","c","d","e","f","g","h","i","j","k","l","m","n","o","p","q","r","s","t","u","v","w","x","y","z">>

Range(f) == { f[i] : i \in DOMAIN f }

\* \d of the re module, over the characters the inputs use.
Digit == Range(DigitSeq)

\* \w of the re module: letters, digits and the underscore.
WordChar == Range(UpperSeq) \cup Range(LowerSeq) \cup Digit \cup {"_"}

\* \s of the re module, and the separators of str.split() and str.strip().
Whitespace == {" ", "\t", "\n"}

\* The case folding re.IGNORECASE compares characters under.
Lower(c) ==
    IF \E i \in 1..26 : UpperSeq[i] = c
    THEN LowerSeq[CHOOSE i \in 1..26 : UpperSeq[i] = c]
    ELSE c

DigitVal(c) == (CHOOSE i \in 1..10 : DigitSeq[i] = c) - 1

\* int(text) on a run of decimal digits.
RECURSIVE int(_)
int(text) ==
    IF text = <<>> THEN 0
    ELSE int(SubSeq(text, 1, Len(text) - 1)) * 10 + DigitVal(text[Len(text)])

\* text has the literal lit at position pos.
HasAt(text, pos, lit) ==
    /\ pos + Len(lit) - 1 <= Len(text)
    /\ \A j \in 1..Len(lit) : text[pos + j - 1] = lit[j]

\* str.endswith(suffix)
endswith(text, suffix) ==
    /\ Len(suffix) <= Len(text)
    /\ HasAt(text, Len(text) - Len(suffix) + 1, suffix)

\* The character classes LOG_PATTERN uses.
InClass(c, cls) ==
    CASE cls = "ip"       -> c \in Digit \cup {"."}
      [] cls = "notclose" -> c # "]"
      [] cls = "word"     -> c \in WordChar
      [] cls = "nonspace" -> c \notin Whitespace
      [] cls = "digit"    -> c \in Digit
      [] cls = "notquote" -> c # "\""
      [] cls = "space"    -> c \in Whitespace

\* The end (exclusive) of the longest run of cls characters of text from pos.
RECURSIVE RunEnd(_, _, _)
RunEnd(text, pos, cls) ==
    IF pos <= Len(text) /\ InClass(text[pos], cls)
    THEN RunEnd(text, pos + 1, cls)
    ELSE pos

\* LOG_PATTERN, element by element: a literal, a named group of one or more
\* (plus) or zero or more (star) characters of a class, and the bytes group,
\* digits or a lone "-".
LOG_PATTERN ==
    << [t |-> "plus", name |-> "ip", cls |-> "ip", lit |-> <<>>],
       [t |-> "lit", name |-> "", cls |-> "", lit |-> <<" ","-"," ","-"," ","[">>],
       [t |-> "plus", name |-> "timestamp", cls |-> "notclose", lit |-> <<>>],
       [t |-> "lit", name |-> "", cls |-> "", lit |-> <<"]"," ","\"">>],
       [t |-> "plus", name |-> "method", cls |-> "word", lit |-> <<>>],
       [t |-> "lit", name |-> "", cls |-> "", lit |-> <<" ">>],
       [t |-> "plus", name |-> "path", cls |-> "nonspace", lit |-> <<>>],
       [t |-> "lit", name |-> "", cls |-> "", lit |-> <<" ","H","T","T","P","/">>],
       [t |-> "plus", name |-> "", cls |-> "ip", lit |-> <<>>],
       [t |-> "lit", name |-> "", cls |-> "", lit |-> <<"\""," ">>],
       [t |-> "plus", name |-> "status", cls |-> "digit", lit |-> <<>>],
       [t |-> "lit", name |-> "", cls |-> "", lit |-> <<" ">>],
       [t |-> "bytes", name |-> "bytes", cls |-> "digit", lit |-> <<"-">>],
       [t |-> "lit", name |-> "", cls |-> "", lit |-> <<" ","\"">>],
       [t |-> "star", name |-> "referer", cls |-> "notquote", lit |-> <<>>],
       [t |-> "lit", name |-> "", cls |-> "", lit |-> <<"\""," ","\"">>],
       [t |-> "star", name |-> "user_agent", cls |-> "notquote", lit |-> <<>>],
       [t |-> "lit", name |-> "", cls |-> "", lit |-> <<"\"">>] >>

NoGroups == [name \in {} |-> <<>>]

\* re.match from element k of the pattern at position pos.  Every group is
\* followed by a literal that starts with a character outside the group's
\* class, so the longest run is the only one a backtracking matcher accepts.
\* match() anchors at the start only: text after the closing quote is allowed.
RECURSIVE MatchFrom(_, _, _, _)
MatchFrom(line, pos, k, groups) ==
    IF k > Len(LOG_PATTERN) THEN [matched |-> TRUE, groups |-> groups]
    ELSE
      LET e == LOG_PATTERN[k]
          stop == RunEnd(line, pos, e.cls)
          fail == [matched |-> FALSE, groups |-> NoGroups]
          bind(to) == IF e.name = "" THEN groups
                      ELSE groups @@ (e.name :> SubSeq(line, pos, to - 1))
      IN  CASE e.t = "lit" ->
                 IF HasAt(line, pos, e.lit)
                 THEN MatchFrom(line, pos + Len(e.lit), k + 1, groups)
                 ELSE fail
            [] e.t = "plus" ->
                 IF stop > pos THEN MatchFrom(line, stop, k + 1, bind(stop)) ELSE fail
            [] e.t = "star" ->
                 MatchFrom(line, stop, k + 1, bind(stop))
            [] e.t = "bytes" ->
                 IF stop > pos THEN MatchFrom(line, stop, k + 1, bind(stop))
                 ELSE IF HasAt(line, pos, e.lit)
                      THEN MatchFrom(line, pos + 1, k + 1, bind(pos + 1))
                      ELSE fail

LOG_PATTERN_match(line) == MatchFrom(line, 1, 1, NoGroups)

(***************************************************************************)
(* datetime.strptime for the two formats parse_line uses,                  *)
(* '%d/%b/%Y:%H:%M:%S %z' and '%d/%b/%Y:%H:%M:%S'.                          *)
(***************************************************************************)

\* The %b alternatives; the format's regex is compiled with IGNORECASE.
MonthNames ==
    << <<"j","a","n">>, <<"f","e","b">>, <<"m","a","r">>, <<"a","p","r">>,
       <<"m","a","y">>, <<"j","u","n">>, <<"j","u","l">>, <<"a","u","g">>,
       <<"s","e","p">>, <<"o","c","t">>, <<"n","o","v">>, <<"d","e","c">> >>

IsLeap(y) == (y % 4 = 0 /\ y % 100 # 0) \/ y % 400 = 0

DaysIn(y, m) ==
    IF m = 2 THEN (IF IsLeap(y) THEN 29 ELSE 28)
    ELSE IF m \in {4, 6, 9, 11} THEN 30 ELSE 31

\* What the format puts after a field: a literal character, one or more
\* whitespace characters (a space in the format is \s+), or the end of text.
Follows(text, p, what) ==
    CASE what = "end"   -> p = Len(text) + 1
      [] what = "space" -> p <= Len(text) /\ text[p] \in Whitespace
      [] OTHER          -> HasAt(text, p, <<what>>)

\* The two-character alternatives of %d, %H, %M and %S.
TwoOk(kind, a, b) ==
    CASE kind = "d" -> \/ a = "3" /\ b \in {"0","1"}
                       \/ a \in {"1","2"} /\ b \in Digit
                       \/ a \in {"0"," "} /\ b \in Digit \ {"0"}
      [] kind = "H" -> \/ a = "2" /\ b \in {"0","1","2","3"}
                       \/ a \in {"0","1"} /\ b \in Digit
      [] kind = "M" -> a \in {"0","1","2","3","4","5"} /\ b \in Digit
      [] kind = "S" -> \/ a = "6" /\ b \in {"0","1"}
                       \/ a \in {"0","1","2","3","4","5"} /\ b \in Digit

\* The one-character alternative of %d, %H, %M and %S.
OneOk(kind, a) ==
    IF kind = "d" THEN a \in Digit \ {"0"} ELSE a \in Digit

\* A numeric directive followed by `what`: the two-character alternatives
\* are tried first, and one that the rest of the format rejects is given up
\* for the one-character alternative.
NumField(text, pos, kind, what) ==
    LET has2 == /\ pos + 1 <= Len(text)
                /\ TwoOk(kind, text[pos], text[pos + 1])
                /\ Follows(text, pos + 2, what)
        has1 == /\ pos <= Len(text)
                /\ OneOk(kind, text[pos])
                /\ Follows(text, pos + 1, what)
    IN  IF has2
        THEN [ok |-> TRUE, next |-> pos + 2,
              val |-> (IF text[pos] = " " THEN 0 ELSE DigitVal(text[pos])) * 10
                      + DigitVal(text[pos + 1])]
        ELSE IF has1
        THEN [ok |-> TRUE, next |-> pos + 1, val |-> DigitVal(text[pos])]
        ELSE [ok |-> FALSE, next |-> pos, val |-> 0]

\* %b at pos: the month number, or 0.
MonthAt(text, pos) ==
    IF pos + 2 > Len(text) THEN 0
    ELSE LET abbr == [j \in 1..3 |-> Lower(text[pos + j - 1])]
         IN  IF \E m \in 1..12 : MonthNames[m] = abbr
             THEN CHOOSE m \in 1..12 : MonthNames[m] = abbr
             ELSE 0

\* %z at pos up to the end of text: "Z", or a sign, two digits, an optional
\* colon and two digits of minutes.  (An offset with a seconds part is
\* outside the inputs of this model.)  The offset is in minutes.
ZoneAt(text, pos) ==
    LET n == Len(text) - pos + 1
        colon == IF n = 6 THEN 1 ELSE 0
        hh == DigitVal(text[pos + 1]) * 10 + DigitVal(text[pos + 2])
        mm == DigitVal(text[pos + 3 + colon]) * 10 + DigitVal(text[pos + 4 + colon])
        shaped == /\ n \in {5, 6}
                  /\ text[pos] \in {"+", "-"}
                  /\ text[pos + 1] \in Digit /\ text[pos + 2] \in Digit
                  /\ (n = 6 => text[pos + 3] = ":")
                  /\ text[pos + 3 + colon] \in {"0","1","2","3","4","5"}
                  /\ text[pos + 4 + colon] \in Digit
    IN  IF n = 1 /\ text[pos] = "Z" THEN [ok |-> TRUE, offset |-> 0]
        ELSE IF shaped
        THEN [ok |-> hh * 60 + mm < 24 * 60,
              offset |-> (IF text[pos] = "-" THEN -1 ELSE 1) * (hh * 60 + mm)]
        ELSE [ok |-> FALSE, offset |-> 0]

NoTime ==
    [year |-> 0, month |-> 0, day |-> 0, hour |-> 0, minute |-> 0,
     second |-> 0, aware |-> FALSE, utcoffset |-> 0]

\* datetime.strptime(text, fmt): ok is FALSE where it raises ValueError (no
\* match, unconverted data, or a value no datetime has).
strptime(text, withZone) ==
    LET d    == NumField(text, 1, "d", "/")
        mon  == MonthAt(text, d.next + 1)
        ypos == d.next + 5
        yok  == /\ ypos + 3 <= Len(text)
                /\ \A j \in 0..3 : text[ypos + j] \in Digit
                /\ HasAt(text, d.next + 4, <<"/">>)
                /\ HasAt(text, ypos + 4, <<":">>)
        year == int(SubSeq(text, ypos, ypos + 3))
        H    == NumField(text, ypos + 5, "H", ":")
        M    == NumField(text, H.next + 1, "M", ":")
        S    == NumField(text, M.next + 1, "S", IF withZone THEN "space" ELSE "end")
        zpos == RunEnd(text, S.next, "space")
        z    == IF withZone THEN ZoneAt(text, zpos) ELSE [ok |-> TRUE, offset |-> 0]
        ok   == /\ d.ok /\ mon # 0 /\ yok /\ H.ok /\ M.ok /\ S.ok
                /\ (withZone => zpos <= Len(text))
                /\ z.ok
                /\ year >= 1 /\ d.val <= DaysIn(year, mon) /\ S.val <= 59
    IN  IF ok
        THEN [ok |-> TRUE,
              value |-> [year |-> year, month |-> mon, day |-> d.val,
                         hour |-> H.val, minute |-> M.val, second |-> S.val,
                         aware |-> withZone, utcoffset |-> z.offset]]
        ELSE [ok |-> FALSE, value |-> NoTime]

\* str.split(): the maximal runs of non-whitespace characters.
RECURSIVE split(_)
split(text) ==
    LET from == RunEnd(text, 1, "space")
        to   == RunEnd(text, from, "nonspace")
    IN  IF from > Len(text) THEN <<>>
        ELSE <<SubSeq(text, from, to - 1)>> \o split(SubSeq(text, to, Len(text)))

\* str.strip(): without the leading and trailing whitespace.
RECURSIVE strip(_)
strip(text) ==
    IF text # <<>> /\ text[1] \in Whitespace THEN strip(Tail(text))
    ELSE IF text # <<>> /\ text[Len(text)] \in Whitespace
    THEN strip(SubSeq(text, 1, Len(text) - 1))
    ELSE text

(***************************************************************************)
(* Bot classification.                                                     *)
(***************************************************************************)

\* BOT_PATTERNS in declaration order (a dict iterates in insertion order).
BOT_PATTERNS ==
    << [name |-> "googlebot",        pattern |-> <<"G","o","o","g","l","e","b","o","t">>],
       [name |-> "googlebot_mobile", pattern |-> <<"G","o","o","g","l","e","b","o","t","-","M","o","b","i","l","e">>],
       [name |-> "bingbot",          pattern |-> <<"b","i","n","g","b","o","t">>],
       [name |-> "yandex",           pattern |-> <<"Y","a","n","d","e","x","B","o","t">>],
       [name |-> "baidu",            pattern |-> <<"B","a","i","d","u","s","p","i","d","e","r">>],
       [name |-> "duckduckgo",       pattern |-> <<"D","u","c","k","D","u","c","k","B","o","t">>],
       [name |-> "semrush",          pattern |-> <<"S","e","m","r","u","s","h","B","o","t">>],
       [name |-> "ahrefs",           pattern |-> <<"A","h","r","e","f","s","B","o","t">>],
       [name |-> "screaming_frog",   pattern |-> <<"S","c","r","e","a","m","i","n","g"," ","F","r","o","g">>],
       [name |-> "mj12bot",          pattern |-> <<"M","J","1","2","b","o","t">>],
       [name |-> "dotbot",           pattern |-> <<"D","o","t","B","o","t">>],
       [name |-> "ahrefsbot",        pattern |-> <<"A","h","r","e","f","s","B","o","t">>],
       [name |-> "semrushbot",       pattern |-> <<"S","e","m","r","u","s","h","B","o","t">>] >>

\* re.search(pattern, text, re.IGNORECASE) for a pattern without
\* metacharacters: the pattern occurs somewhere in text, case folded.
re_search(pattern, text) ==
    \E i \in 1..(Len(text) - Len(pattern) + 1) :
        \A j \in 1..Len(pattern) : Lower(text[i + j - 1]) = Lower(pattern[j])

\* Mutant of the loop of _identify_bot: the last entry that matches wins.
RECURSIVE IdentifyLast(_, _)
IdentifyLast(user_agent, k) ==
    IF k > Len(BOT_PATTERNS) THEN None
    ELSE LET later == IdentifyLast(user_agent, k + 1)
         IN  IF later # None THEN later
             ELSE IF re_search(BOT_PATTERNS[k].pattern, user_agent)
                  THEN BOT_PATTERNS[k].name
                  ELSE None

\* The loop of _identify_bot from entry k on: the first entry that matches
\* returns its name.
RECURSIVE IdentifyFrom(_, _)
IdentifyFrom(user_agent, k) ==
    IF k > Len(BOT_PATTERNS) THEN None
    ELSE IF re_search(BOT_PATTERNS[k].pattern, user_agent)
         THEN BOT_PATTERNS[k].name
         ELSE IdentifyFrom(user_agent, k + 1)

_identify_bot(user_agent) == IdentifyFrom(user_agent, 1)

(***************************************************************************)
(* parse_line                                                              *)
(***************************************************************************)

ReturnNone == [kind |-> "none"]
Raise(exc) == [kind |-> "raise", exc |-> exc]
Return(rec) == [kind |-> "record", rec |-> rec]

\* Mutant of the byte-count conversion: "-" becomes -1.
BytesOfDashNegative(text) == IF text # <<"-">> THEN int(text) ELSE -1

\* int(data['bytes']) if data['bytes'] != '-' else 0
BytesOf(text) == IF text # <<"-">> THEN int(text) ELSE 0

parse_line(line) ==
    LET match    == LOG_PATTERN_match(line)
        data     == match.groups
        primary  == strptime(data["timestamp"], TRUE)
        tokens   == split(data["timestamp"])
        fallback == strptime(tokens[1], FALSE)
        bot_type == _identify_bot(data["user_agent"])
    IN  IF ~match.matched THEN ReturnNone
        ELSE IF ~primary.ok /\ tokens = <<>> THEN Raise("IndexError")
        ELSE IF ~primary.ok /\ ~fallback.ok THEN ReturnNone
        ELSE Return([ip         |-> data["ip"],
                     timestamp  |-> IF primary.ok THEN primary.value
                                    ELSE fallback.value,
                     method     |-> data["method"],
                     path       |-> data["path"],
                     status     |-> int(data["status"]),
                     bytes      |-> BytesOf(data["bytes"]),
                     referer    |-> data["referer"],
                     user_agent |-> data["user_agent"],
                     bot_type   |-> bot_type,
                     is_bot     |-> bot_type # None])

(***************************************************************************)
(* Batch parsing: parse_file and parse_string.  A DataFrame is the         *)
(* sequence of its rows; the DataFrame of an empty list has no rows and no *)
(* columns.                                                                *)
(***************************************************************************)

\* df['path'].str.extract(r'\.([a-z0-9]+)$'): the text after the last "."
\* when it is one or more of a-z, 0-9, else missing (the empty text here).
file_extension(path) ==
    LET ExtChar == Range(LowerSeq) \cup Digit
        dots == { i \in 1..Len(path) :
                    /\ path[i] = "."
                    /\ i < Len(path)
                    /\ \A j \in (i + 1)..Len(path) : path[j] \in ExtChar }
    IN  IF dots = {} THEN <<>>
        ELSE LET i == CHOOSE d \in dots : \A e \in dots : d <= e
             IN  SubSeq(path, i + 1, Len(path))

\* The "useful SEO columns" both batch operations add to a non-empty frame.
AddColumns(parsed_data) ==
    [k \in DOMAIN parsed_data |->
        LET r == parsed_data[k]
        IN  r @@ [date |-> [year |-> r.timestamp.year,
                            month |-> r.timestamp.month,
                            day |-> r.timestamp.day],
                  hour |-> r.timestamp.hour,
                  is_html |-> \/ endswith(r.path, <<".","h","t","m","l">>)
                              \/ endswith(r.path, <<".","h","t","m">>)
                              \/ endswith(r.path, <<"/">>),
                  file_extension |-> file_extension(r.path)]]

\* Optional[int]: None, or an int.
NoLimit == [given |-> FALSE, n |-> 0]
Limit(n) == [given |-> TRUE, n |-> n]

\* `if limit`: None and 0 are both false.
Truthy(limit) == limit.given /\ limit.n # 0

\* The loop of parse_file at enumerate index i (0-based) with parsed_data
\* collected so far.  examined is the number of lines handed to parse_line.
\* An exception out of parse_line leaves the loop and the function.
RECURSIVE FileLoop(_, _, _, _)

\* `if parsed: parsed_data.append(parsed)`.
Collected(parsed_data, parsed) ==
    IF parsed.kind = "record" THEN Append(parsed_data, parsed.rec)
    ELSE parsed_data

\* The body of the loop once parse_line has answered for line i.
FileBody(file, limit, i, parsed_data, parsed) ==
    IF parsed.kind = "raise"
    THEN [kind |-> "raise", exc |-> parsed.exc, examined |-> i + 1]
    ELSE FileLoop(file, limit, i + 1, Collected(parsed_data, parsed))

FileLoop(file, limit, i, parsed_data) ==
    IF i >= Len(file) \/ (Truthy(limit) /\ i >= limit.n)
    THEN [kind |-> "frame", df |-> AddColumns(parsed_data), examined |-> i]
    ELSE FileBody(file, limit, i, parsed_data, parse_line(strip(file[i + 1])))

\* parse_file on a file whose lines are `file`.
parse_file(file, limit) == FileLoop(file, limit, 0, <<>>)

\* The text of a file or string whose lines are `file`: joined by "\n".
RECURSIVE JoinLines(_)
JoinLines(file) ==
    IF file = <<>> THEN <<>>
    ELSE IF Len(file) = 1 THEN file[1]
    ELSE file[1] \o <<"\n">> \o JoinLines(Tail(file))

\* str.split('\n'): the pieces between newlines; the empty text is one
\* empty piece.
RECURSIVE split_nl(_)
split_nl(text) ==
    LET nls == { i \in 1..Len(text) : text[i] = "\n" }
    IN  IF nls = {} THEN <<text>>
        ELSE LET i == CHOOSE n \in nls : \A m \in nls : n <= m
             IN  <<SubSeq(text, 1, i - 1)>> \o split_nl(SubSeq(text, i + 1, Len(text)))

\* The loop of parse_string over the pieces.
RECURSIVE StringLoop(_, _, _)

\* The body of the loop once parse_line has answered for piece k.
StringBody(pieces, k, parsed_data, parsed) ==
    IF parsed.kind = "raise"
    THEN [kind |-> "raise", exc |-> parsed.exc, examined |-> k]
    ELSE StringLoop(pieces, k + 1, Collected(parsed_data, parsed))

StringLoop(pieces, k, parsed_data) ==
    IF k > Len(pieces)
    THEN [kind |-> "frame", df |-> AddColumns(parsed_data), examined |-> k - 1]
    ELSE StringBody(pieces, k, parsed_data, parse_line(strip(pieces[k])))

parse_string(log_string) == StringLoop(split_nl(strip(log_string)), 1, <<>>)

(***************************************************************************)
(* Inputs.                                                                 *)
(***************************************************************************)

\* Bounds of the model.
MaxUAParts == 2
MaxLines == 3
MaxLimit == 3
MaxRecs == 4

\* A Combined Log Format line from its fields.
MkLine(ip, ts, method, path, status, bytes, ua) ==
    ip \o <<" ","-"," ","-"," ","[">> \o ts \o <<"]"," ","\"">> \o method
       \o <<" ">> \o path \o <<" ","H","T","T","P","/","1",".","1","\""," ">>
       \o status \o <<" ">> \o bytes \o <<" ","\"","-","\""," ","\"">> \o ua
       \o <<"\"">>

ip_ok == <<"1",".","2",".","3",".","4">>

GET == <<"G","E","T">>

ts_ok == <<"1","0","/","O","c","t","/","2","0","2","3",":","1","3",":","5","5",":","3","6"," ","+","0","0","0","0">>

ts_blank == <<" ">>

ts_bad == <<"2","0","2","3","-","1","0","-","1","0"," ","1","3",":","5","5",":","3","6">>

ua_google == <<"G","o","o","g","l","e","b","o","t","/","2",".","1">>

ua_gmobile == <<"G","o","o","g","l","e","b","o","t","-","M","o","b","i","l","e","/","2",".","1">>

ua_bing == <<"b","i","n","g","b","o","t","/","2",".","0">>

ua_ahrefs == <<"A","h","r","e","f","s","B","o","t","/","7",".","0">>

ua_moz == <<"M","o","z","i","l","l","a","/","5",".","0">>

p_a == <<"/","a">>

p_b == <<"/","b">>

s200 == <<"2","0","0">>

s404 == <<"4","0","4">>

s500 == <<"5","0","0">>

s600 == <<"6","0","0">>

b512 == <<"5","1","2">>

b7 == <<"7">>

dash == <<"-">>

\* Bracketed timestamps: with and without an offset, in the short forms
\* strptime accepts, with values no datetime has, in another format, and blank.
Timestamps ==
    { <<"1","0","/","O","c","t","/","2","0","2","3",":","1","3",":","5","5",":","3","6"," ","+","0","0","0","0">>,
      <<"0","9","/","O","c","t","/","2","0","2","3",":","2","3",":","5","9",":","5","9"," ","+","0","0","0","0">>,
      <<"1","1","/","O","c","t","/","2","0","2","3",":","0","8",":","0","0",":","0","0"," ","+","0","0","0","0">>,
      <<"1","0","/","O","c","t","/","2","0","2","3",":","1","3",":","5","5",":","3","6">>,
      <<"1","0","/","O","c","t","/","2","0","2","3",":","1","3",":","5","5",":","3","6"," ","U","T","C">>,
      <<"1","/","o","c","t","/","2","0","2","3",":","3",":","5",":","6"," ","Z">>,
      <<"1","0","/","O","c","t","/","2","0","2","3",":","1","3",":","5","5",":","3","6"," ","-","0","5",":","3","0">>,
      <<" ","1","0","/","O","c","t","/","2","0","2","3",":","1","3",":","5","5",":","3","6">>,
      <<"3","1","/","F","e","b","/","2","0","2","3",":","1","3",":","5","5",":","3","6"," ","+","0","0","0","0">>,
      <<"2","9","/","F","e","b","/","2","0","2","4",":","0","0",":","0","0",":","0","0"," ","+","0","0","0","0">>,
      <<"2","9","/","F","e","b","/","2","0","2","3",":","0","0",":","0","0",":","0","0"," ","+","0","0","0","0">>,
      <<"1","0","/","O","c","t","/","2","0","2","3",":","1","3",":","5","5",":","6","0"," ","+","0","0","0","0">>,
      <<"1","0","/","O","c","t","/","2","0","2","3",":","2","4",":","0","0",":","0","0"," ","+","0","0","0","0">>,
      <<"1","0","/","O","c","t","/","0","0","0","0",":","1","3",":","5","5",":","3","6"," ","+","0","0","0","0">>,
      <<"2","0","2","3","-","1","0","-","1","0"," ","1","3",":","5","5",":","3","6">>,
      <<" ">>,
      <<"\t">>,
      <<" ","\t"," ">> }

\* Request paths.
Paths ==
    { <<"/","a">>,
      <<"/","x",".","h","t","m","l">>,
      <<"/","d","/">>,
      <<"/","i",".","p","n","g">>,
      <<"/","I",".","P","N","G">> }

\* Status fields: three digits, fewer, more, zero, and not a number.
Statuses ==
    { <<"2","0","0">>,
      <<"4","0","4">>,
      <<"6","0","0">>,
      <<"0">>,
      <<"2","0">>,
      <<"2","0","0","0">>,
      <<"0","0","7">>,
      <<"a","b","c">> }

\* Byte-count fields.
ByteCounts ==
    { <<"5","1","2">>,
      <<"-">>,
      <<"0">>,
      <<"x">> }

\* User agents.
Agents ==
    { <<"M","o","z","i","l","l","a","/","5",".","0">>,
      <<"G","o","o","g","l","e","b","o","t","/","2",".","1">>,
      <<"G","o","o","g","l","e","b","o","t","-","M","o","b","i","l","e","/","2",".","1">>,
      <<"A","h","r","e","f","s","B","o","t","/","7",".","0">> }

\* Lines that depart from the format in one place each:
\*    1. the quoted referer field is missing
\*    2. the request line has no protocol
\*    3. the user agent is not quoted
\*    4. the client is a host name
\*    5. the method is not a word
\*    6. a user name stands for the second dash
\*    7. the brackets are empty
\*    8. the line is empty
\*    9. the line starts with a space
\*   10. text follows the user agent (match() does not anchor the end)
\*   11. the user agent is empty
OddLines ==
    { <<"1",".","2",".","3",".","4"," ","-"," ","-"," ","[","1","0","/","O","c","t","/","2","0","2","3",":","1","3",":","5","5",":","3","6"," ","+","0","0","0","0","]"," ","\"","G","E","T"," ","/","a"," ","H","T","T","P","/","1",".","1","\""," ","2","0","0"," ","5","1","2"," ","\"","G","o","o","g","l","e","b","o","t","/","2",".","1","\"">>,
      <<"1",".","2",".","3",".","4"," ","-"," ","-"," ","[","1","0","/","O","c","t","/","2","0","2","3",":","1","3",":","5","5",":","3","6"," ","+","0","0","0","0","]"," ","\"","G","E","T"," ","/","a","\""," ","2","0","0"," ","5","1","2"," ","\"","-","\""," ","\"","G","o","o","g","l","e","b","o","t","/","2",".","1","\"">>,
      <<"1",".","2",".","3",".","4"," ","-"," ","-"," ","[","1","0","/","O","c","t","/","2","0","2","3",":","1","3",":","5","5",":","3","6"," ","+","0","0","0","0","]"," ","\"","G","E","T"," ","/","a"," ","H","T","T","P","/","1",".","1","\""," ","2","0","0"," ","5","1","2"," ","\"","-","\""," ","G","o","o","g","l","e","b","o","t","/","2",".","1">>,
      <<"h","o","s","t"," ","-"," ","-"," ","[","1","0","/","O","c","t","/","2","0","2","3",":","1","3",":","5","5",":","3","6"," ","+","0","0","0","0","]"," ","\"","G","E","T"," ","/","a"," ","H","T","T","P","/","1",".","1","\""," ","2","0","0"," ","5","1","2"," ","\"","-","\""," ","\"","G","o","o","g","l","e","b","o","t","/","2",".","1","\"">>,
      <<"1",".","2",".","3",".","4"," ","-"," ","-"," ","[","1","0","/","O","c","t","/","2","0","2","3",":","1","3",":","5","5",":","3","6"," ","+","0","0","0","0","]"," ","\"","G","-","T"," ","/","a"," ","H","T","T","P","/","1",".","1","\""," ","2","0","0"," ","5","1","2"," ","\"","-","\""," ","\"","G","o","o","g","l","e","b","o","t","/","2",".","1","\"">>,
      <<"1",".","2",".","3",".","4"," ","-"," ","b","o","b"," ","[","1","0","/","O","c","t","/","2","0","2","3",":","1","3",":","5","5",":","3","6"," ","+","0","0","0","0","]"," ","\"","G","E","T"," ","/","a"," ","H","T","T","P","/","1",".","1","\""," ","2","0","0"," ","5","1","2"," ","\"","-","\""," ","\"","G","o","o","g","l","e","b","o","t","/","2",".","1","\"">>,
      <<"1",".","2",".","3",".","4"," ","-"," ","-"," ","[","]"," ","\"","G","E","T"," ","/","a"," ","H","T","T","P","/","1",".","1","\""," ","2","0","0"," ","5","1","2"," ","\"","-","\""," ","\"","G","o","o","g","l","e","b","o","t","/","2",".","1","\"">>,
      <<>>,
      <<" ","1",".","2",".","3",".","4"," ","-"," ","-"," ","[","1","0","/","O","c","t","/","2","0","2","3",":","1","3",":","5","5",":","3","6"," ","+","0","0","0","0","]"," ","\"","G","E","T"," ","/","a"," ","H","T","T","P","/","1",".","1","\""," ","2","0","0"," ","5","1","2"," ","\"","-","\""," ","\"","G","o","o","g","l","e","b","o","t","/","2",".","1","\"">>,
      <<"1",".","2",".","3",".","4"," ","-"," ","-"," ","[","1","0","/","O","c","t","/","2","0","2","3",":","1","3",":","5","5",":","3","6"," ","+","0","0","0","0","]"," ","\"","G","E","T"," ","/","a"," ","H","T","T","P","/","1",".","1","\""," ","2","0","0"," ","5","1","2"," ","\"","-","\""," ","\"","G","o","o","g","l","e","b","o","t","/","2",".","1","\""," ","0",".","0","1">>,
      <<"1",".","2",".","3",".","4"," ","-"," ","-"," ","[","1","0","/","O","c","t","/","2","0","2","3",":","1","3",":","5","5",":","3","6"," ","+","0","0","0","0","]"," ","\"","G","E","T"," ","/","a"," ","H","T","T","P","/","1",".","1","\""," ","2","0","0"," ","5","1","2"," ","\"","-","\""," ","\"","\"">> }

\* Pieces of user agents: every declared pattern as declared, some in
\* another case, and pieces that complete or break a pattern.
UAParts ==
    { <<"G","o","o","g","l","e","b","o","t">>,
      <<"G","o","o","g","l","e","b","o","t","-","M","o","b","i","l","e">>,
      <<"b","i","n","g","b","o","t">>,
      <<"Y","a","n","d","e","x","B","o","t">>,
      <<"B","a","i","d","u","s","p","i","d","e","r">>,
      <<"D","u","c","k","D","u","c","k","B","o","t">>,
      <<"S","e","m","r","u","s","h","B","o","t">>,
      <<"A","h","r","e","f","s","B","o","t">>,
      <<"S","c","r","e","a","m","i","n","g"," ","F","r","o","g">>,
      <<"M","J","1","2","b","o","t">>,
      <<"D","o","t","B","o","t">>,
      <<"g","o","o","g","l","e","b","o","t">>,
      <<"G","O","O","G","L","E","B","O","T","-","M","O","B","I","L","E">>,
      <<"B","i","n","g","B","o","t">>,
      <<"a","h","r","e","f","s","b","o","t">>,
      <<"S","E","M","R","U","S","H","B","O","T">>,
      <<"-","M","o","b","i","l","e">>,
      <<"S","c","r","e","a","m","i","n","g">>,
      <<" ","F","r","o","g">>,
      <<"G","o","o","g","l","e">>,
      <<"b","o","t">>,
      <<"M","o","z","i","l","l","a","/","5",".","0"," ">> }
\* The lines parse_line is applied to: every timestamp on a well-formed
\* line, every combination of path, status, byte count and user agent, and
\* the odd lines.
LineSet ==
    { MkLine(ip_ok, ts, GET, p_a, s200, b512, ua_google) : ts \in Timestamps }
    \cup { MkLine(ip_ok, ts_ok, GET, f[1], f[2], f[3], f[4]) :
             f \in Paths \X Statuses \X ByteCounts \X Agents }
    \cup OddLines

\* The concatenations of n pieces.
RECURSIVE Concats(_)
Concats(n) ==
    IF n = 0 THEN { <<>> }
    ELSE { head \o part : head \in Concats(n - 1), part \in UAParts }

\* The user agents _identify_bot is applied to: up to MaxUAParts pieces.
UASet == UNION { Concats(n) : n \in 0..MaxUAParts }

\* The lines of the files batch parsing reads: two well-formed lines, one
\* of them padded with whitespace, a line that does not match, a line whose
\* timestamp is in another format, and a line whose timestamp is blank.
BatchLines ==
    { MkLine(ip_ok, ts_ok, GET, p_a, s200, b512, ua_google),
      <<" ", " ">> \o MkLine(ip_ok, ts_ok, GET, p_b, s404, dash, ua_moz) \o <<"\t">>,
      MkLine(ip_ok, ts_ok, GET, p_a, <<"a","b","c">>, b512, ua_bing),
      MkLine(ip_ok, ts_bad, GET, p_a, s200, b512, ua_bing),
      MkLine(ip_ok, ts_blank, GET, p_b, s200, b512, ua_bing) }

\* The sequences over S of length up to n.
SeqsUpTo(S, n) == UNION { [1..k -> S] : k \in 0..n }

Limits == { NoLimit } \cup { Limit(n) : n \in 0..MaxLimit }

(***************************************************************************)
(* State.                                                                  *)
(***************************************************************************)

VARIABLES
    line,        \* the argument of parse_line
    user_agent,  \* the argument of _identify_bot
    file,        \* the lines of the input of a batch operation
    limit,       \* the limit argument of parse_file
    df,          \* SEOLogAnalyzer.df
    bot_df,      \* SEOLogAnalyzer.bot_df
    result,      \* the last call and what it returned
    answers,     \* the caller's variables: per query, its last answer taken
    build        \* how the installed sort orders equal keys

vars == <<line, user_agent, file, limit, df, bot_df, result, answers, build>>

NoCall == [op |-> "none"]

(***************************************************************************)
(* The parser on one line and on one user agent.                           *)
(***************************************************************************)

InitLine ==
    /\ \/ line \in LineSet /\ user_agent = <<>>
       \/ line = <<>> /\ user_agent \in UASet
    /\ file = <<>> /\ limit = NoLimit
    /\ df = <<>> /\ bot_df = <<>>
    /\ result = NoCall
    /\ answers = <<>> /\ build = None

ParseLine ==
    /\ result = NoCall
    /\ result' = [op |-> "parse_line", out |-> parse_line(line)]
    /\ UNCHANGED <<line, user_agent, file, limit, df, bot_df, answers, build>>

IdentifyBot ==
    /\ result = NoCall
    /\ result' = [op |-> "_identify_bot", out |-> _identify_bot(user_agent)]
    /\ UNCHANGED <<line, user_agent, file, limit, df, bot_df, answers, build>>

NextLine == ParseLine \/ IdentifyBot

SpecLine == InitLine /\ [][NextLine]_vars

(***************************************************************************)
(* Batch parsing.                                                          *)
(***************************************************************************)

InitBatch ==
    /\ file \in SeqsUpTo(BatchLines, MaxLines)
    /\ limit \in Limits
    /\ line = <<>> /\ user_agent = <<>>
    /\ df = <<>> /\ bot_df = <<>>
    /\ result = NoCall
    /\ answers = <<>> /\ build = None

ParseFile ==
    /\ result = NoCall
    /\ result' = [op |-> "parse_file", out |-> parse_file(file, limit)]
    /\ UNCHANGED <<line, user_agent, file, limit, df, bot_df, answers, build>>

ParseString ==
    /\ result = NoCall
    /\ result' = [op |-> "parse_string", out |-> parse_string(JoinLines(file))]
    /\ UNCHANGED <<line, user_agent, file, limit, df, bot_df, answers, build>>

NextBatch == ParseFile \/ ParseString

SpecBatch == InitBatch /\ [][NextBatch]_vars

(***************************************************************************)
(* Properties of the parser.                                               *)
(***************************************************************************)

Min(a, b) == IF a <= b THEN a ELSE b

\* The case-folded text.
Fold(text) == [i \in DOMAIN text |-> Lower(text[i])]

\* pattern occurs in text as a substring, case-insensitively.
Occurs(pattern, text) ==
    \E i \in 1..(Len(text) - Len(pattern) + 1) :
        SubSeq(Fold(text), i, i + Len(pattern) - 1) = Fold(pattern)

\* The declared entries whose pattern occurs in the user agent.
Hits(ua) == { k \in 1..Len(BOT_PATTERNS) : Occurs(BOT_PATTERNS[k].pattern, ua) }

\* The value of a decimal numeral, digit by digit from the left.
RECURSIVE Decimal(_)
Decimal(text) ==
    IF text = <<>> THEN 0
    ELSE LET pow[n \in 0..Len(text)] == IF n = 0 THEN 1 ELSE 10 * pow[n - 1]
         IN  DigitVal(text[1]) * pow[Len(text) - 1] + Decimal(Tail(text))

\* C1: parse_line never raises: for every line it returns a Record or
\* nothing; a line that does not match, or whose timestamp parses under
\* neither format (a blank timestamp included), returns nothing.
C1_NeverRaises ==
    result.op = "parse_line" => result.out.kind \in {"record", "none"}

\* C2: _identify_bot returns the name of the earliest-declared entry whose
\* pattern occurs in the user agent, case-insensitively, and nothing
\* exactly when no pattern occurs.
C2_FirstMatchWins ==
    result.op = "_identify_bot" =>
        LET hits == Hits(user_agent)
        IN  /\ (result.out = None) <=> (hits = {})
            /\ hits # {} =>
                 \E k \in hits : /\ \A h \in hits : k <= h
                                 /\ result.out = BOT_PATTERNS[k].name

\* C2 witness: two declared patterns occur and the earlier name is returned.
C2_Witness ==
    /\ result.op = "_identify_bot"
    /\ {1, 2} \subseteq Hits(user_agent)
    /\ result.out = "googlebot"

\* C3: with a limit n >= 0 given (0 included), parse_file examines exactly
\* the first min(n, number of lines) lines, so it returns at most n Records.
C3_LimitBoundsExamined ==
    (result.op = "parse_file" /\ limit.given /\ result.out.kind = "frame") =>
        /\ result.out.examined = Min(limit.n, Len(file))
        /\ Len(result.out.df) <= limit.n

\* The fields parse_line gives a Record.
CoreFields ==
    {"ip", "timestamp", "method", "path", "status", "bytes", "referer",
     "user_agent", "bot_type", "is_bot"}

Core(row) == [f \in CoreFields |-> row[f]]

IsRecord(l) == parse_line(strip(l)).kind = "record"

\* The Records of the lines of a file that parse, in input order.
Kept(lns) ==
    LET good == SelectSeq(lns, IsRecord)
    IN  [k \in DOMAIN good |-> parse_line(strip(good[k])).rec]

\* C4: batch parsing never fails because of a bad line: without a limit its
\* output is the Records of the lines that parse, in input order (none for
\* an empty or fully malformed input).
C4_BatchNeverFails ==
    (result.op = "parse_string" \/ (result.op = "parse_file" /\ ~Truthy(limit))) =>
        /\ result.out.kind = "frame"
        /\ [k \in DOMAIN result.out.df |-> Core(result.out.df[k])] = Kept(file)

\* C5: a Record's status and bytes are the integer values of the matched
\* digit fields, a "-" byte count is 0 (so bytes >= 0), and is_bot holds
\* exactly when bot_type is present.
C5_ExactIntegers ==
    (result.op = "parse_line" /\ result.out.kind = "record") =>
        LET g == LOG_PATTERN_match(line).groups
            r == result.out.rec
        IN  /\ r.status = Decimal(g["status"])
            /\ r.bytes = (IF g["bytes"] = <<"-">> THEN 0 ELSE Decimal(g["bytes"]))
            /\ r.bytes >= 0
            /\ r.is_bot <=> (r.bot_type # None)

\* C5 witness: the Record of a bot line whose status is 404 and whose byte
\* count is "-".
C5_Witness ==
    /\ result.op = "parse_line" /\ result.out.kind = "record"
    /\ LOG_PATTERN_match(line).groups["bytes"] = <<"-">>
    /\ result.out.rec.bytes = 0
    /\ result.out.rec.is_bot
    /\ result.out.rec.status = 404

\* C6: every Record's status is in the three-digit range 100..999.
C6_StatusThreeDigits ==
    (result.op = "parse_line" /\ result.out.kind = "record") =>
        result.out.rec.status \in 100..999

(***************************************************************************)
(* The analytics engine (src/src/analyzer.py).  A float is the fraction it *)
(* stands for, in lowest terms; a table is the sequence of its rows; a     *)
(* dict with open-ended keys is a function from its keys.                  *)
(***************************************************************************)

RECURSIVE GCD(_, _)
GCD(a, b) == IF b = 0 THEN a ELSE GCD(b, a % b)

\* The fraction n/d (n >= 0, d > 0) in lowest terms.
Frac(n, d) == LET g == GCD(n, d) IN [num |-> n \div g, den |-> d \div g]

\* Mutant of round(x, 2): the digits after the second decimal are cut off.
round2_truncate(x) == Frac((100 * x.num) \div x.den, 100)

\* round(x, 2): the nearest multiple of 1/100, a tie going to the even one.
round2(x) ==
    LET scaled == 100 * x.num
        low    == scaled \div x.den
        twice  == 2 * (scaled - low * x.den)
        up     == twice > x.den \/ (twice = x.den /\ low % 2 = 1)
    IN  Frac(IF up THEN low + 1 ELSE low, 100)

\* Sums, by recursion over a sequence of integers.
RECURSIVE Sum(_)
Sum(ns) == IF ns = <<>> THEN 0 ELSE ns[1] + Sum(Tail(ns))

\* The values of column col of a frame, in row order.
Column(frame, col) == [k \in DOMAIN frame |-> frame[k][col]]

\* Series.nunique() over a column without missing values.
nunique(frame, col) == Cardinality(Range(Column(frame, col)))

\* (x == 200).sum() over the status column.
Count200(frame) == Cardinality({ k \in DOMAIN frame : frame[k].status = 200 })

\* frame[frame[col] == value]: the matching rows, in order.
RECURSIVE Where(_, _, _)
Where(frame, col, value) ==
    IF frame = <<>> THEN <<>>
    ELSE (IF frame[1][col] = value THEN <<frame[1]>> ELSE <<>>)
         \o Where(Tail(frame), col, value)

\* The proleptic Gregorian ordinal of a date (datetime.toordinal).
RECURSIVE DaysBeforeMonth(_, _)
DaysBeforeMonth(y, m) ==
    IF m = 1 THEN 0 ELSE DaysBeforeMonth(y, m - 1) + DaysIn(y, m - 1)

Ordinal(y, m, d) ==
    (y - 1) * 365 + (y - 1) \div 4 - (y - 1) \div 100 + (y - 1) \div 400
    + DaysBeforeMonth(y, m) + d

\* The instant of a timestamp, as the day and the second of the day in UTC,
\* which timestamps are ordered by.  (The timestamps of one frame are all
\* aware or all naive.)
Instant(ts) ==
    LET secs == ts.hour * 3600 + ts.minute * 60 + ts.second - ts.utcoffset * 60
    IN  [day    |-> Ordinal(ts.year, ts.month, ts.day) + (secs \div 86400),
         second |-> secs % 86400]

NotAfter(a, b) ==
    \/ Instant(a).day < Instant(b).day
    \/ Instant(a).day = Instant(b).day /\ Instant(a).second <= Instant(b).second

Digits2(n) == <<DigitSeq[(n \div 10) + 1], DigitSeq[(n % 10) + 1]>>

\* str(timestamp): 'YYYY-MM-DD HH:MM:SS', and '+HH:MM' when aware.
str(ts) ==
    LET off == IF ts.utcoffset < 0 THEN -ts.utcoffset ELSE ts.utcoffset
    IN  Digits2(ts.year \div 100) \o Digits2(ts.year % 100) \o <<"-">>
        \o Digits2(ts.month) \o <<"-">> \o Digits2(ts.day) \o <<" ">>
        \o Digits2(ts.hour) \o <<":">> \o Digits2(ts.minute) \o <<":">>
        \o Digits2(ts.second)
        \o (IF ts.aware
            THEN <<IF ts.utcoffset < 0 THEN "-" ELSE "+">>
                 \o Digits2(off \div 60) \o <<":">> \o Digits2(off % 60)
            ELSE <<>>)

\* An optional value of a dict: None, or the value.
Absent == [present |-> FALSE]
Some(v) == [present |-> TRUE, value |-> v]

\* pd.DataFrame(): no rows and no columns.
EmptyFrame == <<>>

\* 'name' in frame.columns: the frames here get their columns from their rows.
HasColumn(frame, name) == frame # <<>> /\ name \in DOMAIN frame[1]

\* df[df['is_bot'] == True].copy() if 'is_bot' in df.columns else pd.DataFrame()
BotRows(frame) ==
    IF HasColumn(frame, "is_bot") THEN Where(frame, "is_bot", TRUE) ELSE EmptyFrame

\* The bot names in the order groupby sorts its keys (sort=True): the
\* declared names, alphabetically.
SortedBotNames ==
    <<"ahrefs", "ahrefsbot", "baidu", "bingbot", "dotbot", "duckduckgo",
      "googlebot", "googlebot_mobile", "mj12bot", "screaming_frog", "semrush",
      "semrushbot", "yandex">>

BotRank(name) == CHOOSE i \in DOMAIN SortedBotNames : SortedBotNames[i] = name

\* Paths are ordered as str orders them: character by character, a proper
\* prefix first.  CharRank orders the characters the paths are made of.
CharRank(c) ==
    IF c \in Digit THEN 48 + DigitVal(c)
    ELSE IF \E i \in 1..26 : UpperSeq[i] = c
    THEN 64 + (CHOOSE i \in 1..26 : UpperSeq[i] = c)
    ELSE IF \E i \in 1..26 : LowerSeq[i] = c
    THEN 96 + (CHOOSE i \in 1..26 : LowerSeq[i] = c)
    ELSE IF c = "." THEN 46 ELSE IF c = "/" THEN 47 ELSE 0

RECURSIVE TextLess(_, _)
TextLess(a, b) ==
    IF a = <<>> THEN b # <<>>
    ELSE IF b = <<>> THEN FALSE
    ELSE IF a[1] = b[1] THEN TextLess(Tail(a), Tail(b))
    ELSE CharRank(a[1]) < CharRank(b[1])

\* The keys of a groupby, which sorts them: the values, ascending under less.
Ascending(values, less(_, _)) ==
    CHOOSE s \in [1..Cardinality(values) -> values] :
        \A i, j \in DOMAIN s : i < j => less(s[i], s[j])

BotLess(a, b) == BotRank(a) < BotRank(b)
DateLess(a, b) == Ordinal(a.year, a.month, a.day) < Ordinal(b.year, b.month, b.day)

\* Mutant of sort_values(col, ascending=False): the sort is ascending.
SortAscending(rows, col) ==
    LET n == Len(rows)
        perms == { p \in [1..n -> 1..n] : \A i, j \in 1..n : i # j => p[i] # p[j] }
    IN  { [k \in 1..n |-> rows[p[k]]] : p \in
            { q \in perms : \A k \in 1..(n - 1) :
                               rows[q[k]][col] <= rows[q[k + 1]][col] } }

\* sort_values(col, ascending=False) with the default kind, quicksort, which
\* is not stable: every order of the rows in which col does not increase.
SortDescending(rows, col) ==
    LET n == Len(rows)
        perms == { p \in [1..n -> 1..n] : \A i, j \in 1..n : i # j => p[i] # p[j] }
    IN  { [k \in 1..n |-> rows[p[k]]] : p \in
            { q \in perms : \A k \in 1..(n - 1) :
                               rows[q[k]][col] >= rows[q[k + 1]][col] } }

(***************************************************************************)
(* The queries.  Each is the set of results the call can return: a query   *)
(* that sorts with the default unstable sort has one result per order of   *)
(* the tied rows.                                                          *)
(***************************************************************************)

crawl_budget_summary(full, bots) ==
    LET total_requests == Len(full)
        bot_requests   == Len(bots)
        first == CHOOSE k \in DOMAIN full : \A o \in DOMAIN full :
                    NotAfter(full[k].timestamp, full[o].timestamp)
        last  == CHOOSE k \in DOMAIN full : \A o \in DOMAIN full :
                    NotAfter(full[o].timestamp, full[k].timestamp)
    IN  { [total_requests |-> total_requests,
           bot_requests   |-> bot_requests,
           bot_percentage |-> IF total_requests > 0
                              THEN round2(Frac(bot_requests * 100, total_requests))
                              ELSE Frac(0, 1),
           unique_bots    |-> IF bots # <<>> THEN nunique(bots, "bot_type") ELSE 0,
           unique_pages_crawled |-> IF bots # <<>> THEN nunique(bots, "path") ELSE 0,
           date_range |->
             [start |-> IF full # <<>> THEN Some(str(full[first].timestamp)) ELSE Absent,
              end   |-> IF full # <<>> THEN Some(str(full[last].timestamp)) ELSE Absent]] }

\* Mutant of the aggregation of bot_distribution: 'path' is aggregated with
\* nunique instead of count.
BotStatsNunique(bots) ==
    LET keys == Ascending(Range(Column(bots, "bot_type")), BotLess)
    IN  [i \in DOMAIN keys |->
           LET group == Where(bots, "bot_type", keys[i])
           IN  [bot_type            |-> keys[i],
                total_requests      |-> nunique(group, "path"),
                successful_requests |-> Count200(group),
                total_bytes         |-> Sum(Column(group, "bytes")),
                success_rate        |-> round2(Frac(Count200(group) * 100, Len(group)))]]

\* The groups of groupby('bot_type').agg(...) with success_rate, in key order.
BotStats(bots) ==
    LET keys == Ascending(Range(Column(bots, "bot_type")), BotLess)
    IN  [i \in DOMAIN keys |->
           LET group == Where(bots, "bot_type", keys[i])
           IN  [bot_type            |-> keys[i],
                total_requests      |-> Len(group),
                successful_requests |-> Count200(group),
                total_bytes         |-> Sum(Column(group, "bytes")),
                success_rate        |-> round2(Frac(Count200(group) * 100, Len(group)))]]

bot_distribution(bots) ==
    IF bots = <<>> THEN { EmptyFrame }
    ELSE SortDescending(BotStats(bots), "total_requests")

\* The declared names that str.contains('googlebot', case=False) accepts.
GooglebotNames == {"googlebot", "googlebot_mobile"}

\* Series.value_counts().to_dict(), as a mapping: each value to its count.
value_counts(frame, col) ==
    [v \in Range(Column(frame, col)) |-> Len(Where(frame, col, v))]

\* Series.mean() and Series.median() of the bytes column.
mean_bytes(frame) == Frac(Sum(Column(frame, "bytes")), Len(frame))

\* The k-th smallest of the bytes of a frame (k from 1).
KthBytes(frame, k) ==
    CHOOSE b \in Range(Column(frame, "bytes")) :
        /\ Cardinality({ i \in DOMAIN frame : frame[i].bytes < b }) < k
        /\ Cardinality({ i \in DOMAIN frame : frame[i].bytes <= b }) >= k

median_bytes(frame) ==
    LET n == Len(frame)
    IN  IF n % 2 = 1 THEN Frac(KthBytes(frame, (n + 1) \div 2), 1)
        ELSE Frac(KthBytes(frame, n \div 2) + KthBytes(frame, n \div 2 + 1), 2)

\* Mutant of googlebot_analysis: one marker for both empty cases.
googlebot_analysis_one_marker(bots) ==
    LET googlebot_df == SelectSeq(bots, LAMBDA r : r.bot_type \in GooglebotNames)
    IN  IF bots = <<>> \/ googlebot_df = <<>>
        THEN { [error |-> "No bot activity found"] }
        ELSE { [total_crawls      |-> Len(googlebot_df),
                mobile_vs_desktop |-> value_counts(googlebot_df, "bot_type"),
                crawl_by_hour     |-> value_counts(googlebot_df, "hour"),
                top_crawled_paths |-> value_counts(googlebot_df, "path"),
                status_codes      |-> value_counts(googlebot_df, "status"),
                avg_response_size |-> round2(mean_bytes(googlebot_df))] }

\* head(20) of the path counts keeps them all: a frame of the model has
\* fewer than 20 distinct paths.
googlebot_analysis(bots) ==
    LET googlebot_df == SelectSeq(bots, LAMBDA r : r.bot_type \in GooglebotNames)
    IN  IF bots = <<>> THEN { [error |-> "No bot activity found"] }
        ELSE IF googlebot_df = <<>> THEN { [error |-> "No Googlebot activity found"] }
        ELSE { [total_crawls      |-> Len(googlebot_df),
                mobile_vs_desktop |-> value_counts(googlebot_df, "bot_type"),
                crawl_by_hour     |-> value_counts(googlebot_df, "hour"),
                top_crawled_paths |-> value_counts(googlebot_df, "path"),
                status_codes      |-> value_counts(googlebot_df, "status"),
                avg_response_size |-> round2(mean_bytes(googlebot_df))] }

\* The number of rows of a group with lo <= status < hi.
InRange(group, lo, hi) ==
    Cardinality({ k \in DOMAIN group : lo <= group[k].status /\ group[k].status < hi })

\* status_analysis[cols].sum(axis=1) for one row: the sum of the row's
\* counts over the columns cols (0 over no column).
RECURSIVE SumColumns(_, _)
SumColumns(counts, cols) ==
    IF cols = {} THEN 0
    ELSE LET col == CHOOSE c \in cols : TRUE
         IN  counts[col] + SumColumns(counts, cols \ {col})

\* groupby(['bot_type', 'status']).size().unstack(fill_value=0): one row
\* per bot_type in key order, one column per status that occurs.
StatusTable(bots) ==
    LET keys == Ascending(Range(Column(bots, "bot_type")), BotLess)
        status_cols == Range(Column(bots, "status"))
    IN  [i \in DOMAIN keys |->
           [bot_type |-> keys[i],
            counts   |-> [s \in status_cols |->
                            Len(Where(Where(bots, "bot_type", keys[i]), "status", s))]]]

\* Mutant of status_code_analysis: the 5xx category has no upper end.
status_code_analysis_open_5xx(bots) ==
    IF bots = <<>> THEN { EmptyFrame }
    ELSE LET status_analysis == StatusTable(bots)
             status_cols == Range(Column(bots, "status"))
         IN  { [i \in DOMAIN status_analysis |->
                  LET counts == status_analysis[i].counts
                  IN  [bot_type |-> status_analysis[i].bot_type,
                       counts   |-> counts,
                       c2xx     |-> SumColumns(counts, { col \in status_cols : 200 <= col /\ col < 300 }),
                       c3xx     |-> SumColumns(counts, { col \in status_cols : 300 <= col /\ col < 400 }),
                       c4xx     |-> SumColumns(counts, { col \in status_cols : 400 <= col /\ col < 500 }),
                       c5xx     |-> SumColumns(counts, { col \in status_cols : 500 <= col })]] }

\* The categories are sums over the status columns of the table as it was
\* before the first category was added.
status_code_analysis(bots) ==
    IF bots = <<>> THEN { EmptyFrame }
    ELSE LET status_analysis == StatusTable(bots)
             status_cols == Range(Column(bots, "status"))
         IN  { [i \in DOMAIN status_analysis |->
                  LET counts == status_analysis[i].counts
                  IN  [bot_type |-> status_analysis[i].bot_type,
                       counts   |-> counts,
                       c2xx     |-> SumColumns(counts, { col \in status_cols : 200 <= col /\ col < 300 }),
                       c3xx     |-> SumColumns(counts, { col \in status_cols : 300 <= col /\ col < 400 }),
                       c4xx     |-> SumColumns(counts, { col \in status_cols : 400 <= col /\ col < 500 }),
                       c5xx     |-> SumColumns(counts, { col \in status_cols : 500 <= col /\ col < 600 })]] }

\* Mutant of the primary_bot aggregation: the bot_type of the group's first
\* record, whatever its frequency.
PrimaryBotsFirst(group) == { group[1].bot_type }

\* x.value_counts().index[0]: a most frequent bot_type of the group; which
\* one of several is most frequent is left to the sort of value_counts.
PrimaryBots(group) ==
    LET counts == value_counts(group, "bot_type")
    IN  { b \in DOMAIN counts : \A o \in DOMAIN counts : counts[b] >= counts[o] }

\* The groups of groupby('path').agg(...), in key order, for one choice of
\* primary bots.  success_rate is not rounded.
PathFreqs(bots) ==
    LET keys == Ascending(Range(Column(bots, "path")), TextLess)
        groups == [i \in DOMAIN keys |-> Where(bots, "path", keys[i])]
    IN  { [i \in DOMAIN keys |->
             [path         |-> keys[i],
              crawl_count  |-> Len(groups[i]),
              primary_bot  |-> primary[i],
              success_rate |-> Frac(Count200(groups[i]) * 100, Len(groups[i]))]] :
          primary \in { f \in [DOMAIN keys -> Range(Column(bots, "bot_type"))] :
                          \A i \in DOMAIN keys : f[i] \in PrimaryBots(groups[i]) } }

crawl_frequency_by_path(bots, min_crawls) ==
    IF bots = <<>> THEN { EmptyFrame }
    ELSE UNION { SortDescending(
                   SelectSeq(path_freq, LAMBDA r : r.crawl_count >= min_crawls),
                   "crawl_count") : path_freq \in PathFreqs(bots) }

\* The rows of value_counts() of the path column: descending by count, in
\* any order among equal counts.
PathCounts(bots) ==
    LET keys == Ascending(Range(Column(bots, "path")), TextLess)
    IN  SortDescending([i \in DOMAIN keys |->
                          [path |-> keys[i],
                           count |-> Len(Where(bots, "path", keys[i]))]], "count")

\* Mutant of identify_crawl_traps: a path crawled exactly threshold times
\* is reported too.
identify_crawl_traps_inclusive(bots, threshold) ==
    IF bots = <<>> THEN { <<>> }
    ELSE { Column(SelectSeq(crawl_counts, LAMBDA r : r.count >= threshold), "path") :
             crawl_counts \in PathCounts(bots) }

identify_crawl_traps(bots, threshold) ==
    IF bots = <<>> THEN { <<>> }
    ELSE { Column(SelectSeq(crawl_counts, LAMBDA r : r.count > threshold), "path") :
             crawl_counts \in PathCounts(bots) }

time_series_analysis(bots, bot_type) ==
    LET frame == IF bot_type = None THEN bots ELSE Where(bots, "bot_type", bot_type)
        keys  == Ascending(Range(Column(frame, "date")), DateLess)
    IN  IF bots = <<>> \/ frame = <<>> THEN { EmptyFrame }
        ELSE { [i \in DOMAIN keys |->
                  LET group == Where(frame, "date", keys[i])
                  IN  [date              |-> keys[i],
                       total_crawls      |-> Len(group),
                       successful_crawls |-> Count200(group)]] }

response_time_analysis(bots) ==
    IF bots = <<>> THEN { [error |-> "No bot data available"] }
    ELSE { [avg_bytes       |-> round2(mean_bytes(bots)),
            median_bytes    |-> round2(median_bytes(bots)),
            max_bytes       |-> KthBytes(bots, Len(bots)),
            min_bytes       |-> KthBytes(bots, 1),
            total_bandwidth |-> Sum(Column(bots, "bytes"))] }

\* Series.unique(): the distinct values in order of first appearance.
RECURSIVE unique(_)
unique(values) ==
    IF values = <<>> THEN <<>>
    ELSE LET front == unique(SubSeq(values, 1, Len(values) - 1))
             v == values[Len(values)]
         IN  IF v \in Range(front) THEN front ELSE Append(front, v)

\* ', '.join(names): the names with ", " between them, piece by piece.
RECURSIVE join(_)
join(names) ==
    IF names = <<>> THEN <<>>
    ELSE IF Len(names) = 1 THEN names
    ELSE <<names[1], ", ">> \o join(Tail(names))

\* Mutant of get_error_pages: the bot types are joined without unique().
get_error_pages_repeated_bots(bots, status_code) ==
    LET error_df == Where(bots, "status", status_code)
        keys     == Ascending(Range(Column(error_df, "path")), TextLess)
    IN  IF bots = <<>> \/ error_df = <<>> THEN { EmptyFrame }
        ELSE SortDescending(
               [i \in DOMAIN keys |->
                  LET group == Where(error_df, "path", keys[i])
                  IN  [path          |-> keys[i],
                       error_count   |-> Len(group),
                       bots_affected |-> join(Column(group, "bot_type"))]],
               "error_count")

get_error_pages(bots, status_code) ==
    LET error_df == Where(bots, "status", status_code)
        keys     == Ascending(Range(Column(error_df, "path")), TextLess)
    IN  IF bots = <<>> \/ error_df = <<>> THEN { EmptyFrame }
        ELSE SortDescending(
               [i \in DOMAIN keys |->
                  LET group == Where(error_df, "path", keys[i])
                  IN  [path          |-> keys[i],
                       error_count   |-> Len(group),
                       bots_affected |-> join(unique(Column(group, "bot_type")))]],
               "error_count")

\* Mutant of daily_crawl_report: total_crawls adds up the three status
\* tallies instead of counting the rows.
daily_crawl_report_tallied_total(bots) ==
    IF bots = <<>> THEN { EmptyFrame }
    ELSE LET keys == Ascending(Range(Column(bots, "date")), DateLess)
         IN  { [i \in DOMAIN keys |->
                  LET group == Where(bots, "date", keys[i])
                  IN  [date         |-> keys[i],
                       total_crawls |-> Count200(group) + InRange(group, 400, 500)
                                          + InRange(group, 500, 600),
                       successful   |-> Count200(group),
                       errors_4xx   |-> InRange(group, 400, 500),
                       errors_5xx   |-> InRange(group, 500, 600),
                       unique_bots  |-> nunique(group, "bot_type"),
                       total_bytes  |-> Sum(Column(group, "bytes"))]] }

daily_crawl_report(bots) ==
    IF bots = <<>> THEN { EmptyFrame }
    ELSE LET keys == Ascending(Range(Column(bots, "date")), DateLess)
         IN  { [i \in DOMAIN keys |->
                  LET group == Where(bots, "date", keys[i])
                  IN  [date         |-> keys[i],
                       total_crawls |-> Len(group),
                       successful   |-> Count200(group),
                       errors_4xx   |-> InRange(group, 400, 500),
                       errors_5xx   |-> InRange(group, 500, 600),
                       unique_bots  |-> nunique(group, "bot_type"),
                       total_bytes  |-> Sum(Column(group, "bytes"))]] }

(***************************************************************************)
(* The engine, constructed from the frame parse_string returns.            *)
(***************************************************************************)

ts_day0 == <<"0","9","/","O","c","t","/","2","0","2","3",":","2","3",":","5","9",":","5","9"," ","+","0","0","0","0">>

ts_day1 == <<"1","0","/","O","c","t","/","2","0","2","3",":","1","4",":","0","5",":","0","0"," ","+","0","0","0","0">>

ts_day2 == <<"1","1","/","O","c","t","/","2","0","2","3",":","0","8",":","0","0",":","0","0"," ","+","0","0","0","0">>

\* The log lines the frames are parsed from: bot and non-bot lines on two
\* paths and three dates, with statuses inside and outside 200..599.  All
\* carry the same UTC offset.
AnalyzerLines ==
    { MkLine(ip_ok, ts_ok,   GET, p_a, s200, b512, ua_google),
      MkLine(ip_ok, ts_day1, GET, p_a, s404, dash, ua_bing),
      MkLine(ip_ok, ts_day2, GET, p_a, s404, b7,   ua_ahrefs),
      MkLine(ip_ok, ts_day0, GET, p_b, s200, b512, ua_moz),
      MkLine(ip_ok, ts_day2, GET, p_b, s500, b7,   ua_bing),
      MkLine(ip_ok, ts_day0, GET, p_b, s600, b7,   ua_gmobile) }

\* Arguments of the queries that take one.
MaxParam == 3
Params == 0..MaxParam
BotFilters == {None, "googlebot", "bingbot", "yandex"}
StatusCodes == {200, 404, 302}

\* SEOLogAnalyzer(df) for the frame of every file of up to MaxRecs lines.
InitAnalyzer ==
    /\ file \in SeqsUpTo(AnalyzerLines, MaxRecs)
    /\ df = parse_string(JoinLines(file)).df
    /\ bot_df = BotRows(df)
    /\ line = <<>> /\ user_agent = <<>> /\ limit = NoLimit
    /\ result = NoCall
    /\ answers = <<>> /\ build = None

\* The record of a call: the query, its arguments and what it returned.
Answer(op, args, out) == [op |-> op, args |-> args, out |-> out]

\* The ways a build orders rows with equal sort keys.  A sort is a
\* deterministic function: one build orders the same rows the same way
\* every time, builds differ from one another.
Builds == {"one", "other"}

\* The result the build picks among the possible results of a call.
Resolve(outs, b) ==
    LET one  == CHOOSE o \in outs : TRUE
        rest == outs \ {one}
    IN  IF b = "one" \/ rest = {} THEN one ELSE CHOOSE o \in rest : TRUE

\* What a call can return: any of the possible results where the build is
\* left open, the build's result where it is fixed.
Outcomes(outs) == IF build = None THEN outs ELSE { Resolve(outs, build) }

\* The engine answers a query when the caller holds no answer not yet
\* taken.
CrawlBudgetSummary ==
    /\ result = NoCall
    /\ \E out \in Outcomes(crawl_budget_summary(df, bot_df)) :
           result' = Answer("crawl_budget_summary", <<>>, out)
    /\ UNCHANGED <<line, user_agent, file, limit, df, bot_df, answers, build>>

BotDistribution ==
    /\ result = NoCall
    /\ \E out \in Outcomes(bot_distribution(bot_df)) :
           result' = Answer("bot_distribution", <<>>, out)
    /\ UNCHANGED <<line, user_agent, file, limit, df, bot_df, answers, build>>

GooglebotAnalysis ==
    /\ result = NoCall
    /\ \E out \in Outcomes(googlebot_analysis(bot_df)) :
           result' = Answer("googlebot_analysis", <<>>, out)
    /\ UNCHANGED <<line, user_agent, file, limit, df, bot_df, answers, build>>

StatusCodeAnalysis ==
    /\ result = NoCall
    /\ \E out \in Outcomes(status_code_analysis(bot_df)) :
           result' = Answer("status_code_analysis", <<>>, out)
    /\ UNCHANGED <<line, user_agent, file, limit, df, bot_df, answers, build>>

CrawlFrequencyByPath ==
    /\ result = NoCall
    /\ \E min_crawls \in Params :
         \E out \in Outcomes(crawl_frequency_by_path(bot_df, min_crawls)) :
           result' = Answer("crawl_frequency_by_path", <<min_crawls>>, out)
    /\ UNCHANGED <<line, user_agent, file, limit, df, bot_df, answers, build>>

IdentifyCrawlTraps ==
    /\ result = NoCall
    /\ \E threshold \in Params :
         \E out \in Outcomes(identify_crawl_traps(bot_df, threshold)) :
           result' = Answer("identify_crawl_traps", <<threshold>>, out)
    /\ UNCHANGED <<line, user_agent, file, limit, df, bot_df, answers, build>>

\* Mutant of time_series_analysis: the filtered frame is assigned to
\* self.bot_df instead of a local.
TimeSeriesAnalysisInPlace ==
    /\ result = NoCall
    /\ \E bot_type \in BotFilters :
         /\ \E out \in Outcomes(time_series_analysis(bot_df, bot_type)) :
              result' = Answer("time_series_analysis", <<bot_type>>, out)
         /\ bot_df' = IF bot_type = None THEN bot_df
                      ELSE Where(bot_df, "bot_type", bot_type)
    /\ UNCHANGED <<line, user_agent, file, limit, df, answers, build>>

TimeSeriesAnalysis ==
    /\ result = NoCall
    /\ \E bot_type \in BotFilters :
         \E out \in Outcomes(time_series_analysis(bot_df, bot_type)) :
           result' = Answer("time_series_analysis", <<bot_type>>, out)
    /\ UNCHANGED <<line, user_agent, file, limit, df, bot_df, answers, build>>

ResponseTimeAnalysis ==
    /\ result = NoCall
    /\ \E out \in Outcomes(response_time_analysis(bot_df)) :
           result' = Answer("response_time_analysis", <<>>, out)
    /\ UNCHANGED <<line, user_agent, file, limit, df, bot_df, answers, build>>

GetErrorPages ==
    /\ result = NoCall
    /\ \E status_code \in StatusCodes :
         \E out \in Outcomes(get_error_pages(bot_df, status_code)) :
           result' = Answer("get_error_pages", <<status_code>>, out)
    /\ UNCHANGED <<line, user_agent, file, limit, df, bot_df, answers, build>>

DailyCrawlReport ==
    /\ result = NoCall
    /\ \E out \in Outcomes(daily_crawl_report(bot_df)) :
           result' = Answer("daily_crawl_report", <<>>, out)
    /\ UNCHANGED <<line, user_agent, file, limit, df, bot_df, answers, build>>

NextAnalyzer ==
    \/ CrawlBudgetSummary
    \/ BotDistribution
    \/ GooglebotAnalysis
    \/ StatusCodeAnalysis
    \/ CrawlFrequencyByPath
    \/ IdentifyCrawlTraps
    \/ TimeSeriesAnalysis
    \/ ResponseTimeAnalysis
    \/ GetErrorPages
    \/ DailyCrawlReport

SpecAnalyzer == InitAnalyzer /\ [][NextAnalyzer]_vars

(***************************************************************************)
(* The engine asked for crawl traps, over files long enough for one path   *)
(* to be crawled three times, another twice, and a browser to visit.       *)
(***************************************************************************)

MaxTrapRecs == 6

\* Two bot lines on two paths and a browser line on the first path.
TrapLines ==
    { MkLine(ip_ok, ts_ok, GET, p_a, s200, b512, ua_google),
      MkLine(ip_ok, ts_ok, GET, p_b, s404, b7,   ua_bing),
      MkLine(ip_ok, ts_ok, GET, p_a, s200, b512, ua_moz) }

InitTraps ==
    /\ file \in SeqsUpTo(TrapLines, MaxTrapRecs)
    /\ df = parse_string(JoinLines(file)).df
    /\ bot_df = BotRows(df)
    /\ line = <<>> /\ user_agent = <<>> /\ limit = NoLimit
    /\ result = NoCall
    /\ answers = <<>> /\ build = None

SpecTraps == InitTraps /\ [][IdentifyCrawlTraps]_vars

(***************************************************************************)
(* The engine asked for error pages, over files with one status on two     *)
(* paths.                                                                  *)
(***************************************************************************)

\* 404s of two bot types and of a browser on one path, a 404 and a success
\* on another.
ErrorLines ==
    { MkLine(ip_ok, ts_ok, GET, p_a, s404, b7,   ua_bing),
      MkLine(ip_ok, ts_ok, GET, p_a, s404, b7,   ua_ahrefs),
      MkLine(ip_ok, ts_ok, GET, p_a, s404, b7,   ua_moz),
      MkLine(ip_ok, ts_ok, GET, p_b, s404, dash, ua_bing),
      MkLine(ip_ok, ts_ok, GET, p_b, s200, b512, ua_google) }

InitErrors ==
    /\ file \in SeqsUpTo(ErrorLines, MaxRecs)
    /\ df = parse_string(JoinLines(file)).df
    /\ bot_df = BotRows(df)
    /\ line = <<>> /\ user_agent = <<>> /\ limit = NoLimit
    /\ result = NoCall
    /\ answers = <<>> /\ build = None

SpecErrors == InitErrors /\ [][GetErrorPages]_vars

(***************************************************************************)
(* A session: one engine asked query after query, the caller keeping the   *)
(* answers, on one build.                                                  *)
(***************************************************************************)

\* The number of queries whose answers the caller keeps.
MaxCalls == 2

\* No record; two bot types once each on one path; a browser and two bot
\* types on two paths.
SessionFiles ==
    { <<>>,
      << MkLine(ip_ok, ts_day1, GET, p_a, s404, dash, ua_bing),
         MkLine(ip_ok, ts_day2, GET, p_a, s404, b7,   ua_ahrefs) >>,
      << MkLine(ip_ok, ts_day0, GET, p_b, s200, b512, ua_moz),
         MkLine(ip_ok, ts_ok,   GET, p_a, s200, b512, ua_google),
         MkLine(ip_ok, ts_day2, GET, p_b, s500, b7,   ua_bing) >> }

InitSession ==
    /\ file \in SessionFiles
    /\ df = parse_string(JoinLines(file)).df
    /\ bot_df = BotRows(df)
    /\ line = <<>> /\ user_agent = <<>> /\ limit = NoLimit
    /\ result = NoCall
    /\ answers = <<>>
    /\ build \in Builds

\* The caller assigns the answer to its variable for the query and goes on.
TakeAnswer ==
    /\ result # NoCall
    /\ result.op \in DOMAIN answers \/ Cardinality(DOMAIN answers) < MaxCalls
    /\ answers' = [op \in DOMAIN answers \cup {result.op} |->
                     IF op = result.op THEN [args |-> result.args, out |-> result.out]
                     ELSE answers[op]]
    /\ result' = NoCall
    /\ UNCHANGED <<line, user_agent, file, limit, df, bot_df, build>>

NextSession == NextAnalyzer \/ TakeAnswer

SpecSession == InitSession /\ [][NextSession]_vars

(***************************************************************************)
(* The whole program: a line or a user agent handed to the parser, a file  *)
(* parsed in a batch, or an engine constructed and queried.                *)
(***************************************************************************)

Init == InitLine \/ InitBatch \/ InitAnalyzer \/ InitTraps \/ InitErrors \/ InitSession

Next == NextLine \/ NextBatch \/ NextSession

Spec == Init /\ [][Next]_vars

(***************************************************************************)
(* Properties of the analytics engine.                                     *)
(***************************************************************************)

\* The rows of the held collection that are bot records.
BotIndices == { k \in DOMAIN df : df[k].is_bot }

\* A value rounded to 2 decimals, in hundredths.
Hundredths(x) == x.num * (100 \div x.den)

\* k is a row of df with the earliest (latest) timestamp of all of df.
Earliest(k) == \A o \in DOMAIN df : NotAfter(df[k].timestamp, df[o].timestamp)
Latest(k) == \A o \in DOMAIN df : NotAfter(df[o].timestamp, df[k].timestamp)

\* C7: crawl_budget_summary of an empty collection has total_requests = 0,
\* bot_requests = 0, bot_percentage = 0 and no date range; of a non-empty
\* one, bot_percentage is bot_requests / total_requests * 100 to 2
\* decimals, bot_requests <= total_requests, and the date range is the
\* earliest and latest timestamp of the full collection.
C7_Summary ==
    result.op = "crawl_budget_summary" =>
        LET out   == result.out
            total == Len(df)
            bots  == Cardinality(BotIndices)
            h     == Hundredths(out.bot_percentage)
            off   == 10000 * bots - h * total
        IN  /\ out.total_requests = total
            /\ out.bot_requests = bots
            /\ out.bot_requests <= out.total_requests
            /\ total = 0 =>
                 /\ out.bot_percentage = Frac(0, 1)
                 /\ out.date_range = [start |-> Absent, end |-> Absent]
            /\ total > 0 =>
                 /\ 100 % out.bot_percentage.den = 0
                 /\ 2 * off <= total /\ -2 * off <= total
                 /\ \E k \in DOMAIN df :
                      Earliest(k) /\ out.date_range.start = Some(str(df[k].timestamp))
                 /\ \E k \in DOMAIN df :
                      Latest(k) /\ out.date_range.end = Some(str(df[k].timestamp))

\* C7 witness: two of three records are bot records (66.67 percent) and the
\* range starts at a non-bot record, earlier than every bot record.
C7_Witness ==
    /\ result.op = "crawl_budget_summary"
    /\ result.out.total_requests = 3
    /\ result.out.bot_percentage = Frac(6667, 100)
    /\ result.out.date_range.start =
         Some(<<"2","0","2","3","-","1","0","-","0","9"," ","2","3",":","5","9",
                ":","5","9","+","0","0",":","0","0">>)
    /\ \A k \in DOMAIN bot_df : \E o \in DOMAIN df :
         ~NotAfter(bot_df[k].timestamp, df[o].timestamp)

\* What each query returns when there are no bot records.
EmptyAnswer(op, out) ==
    CASE op = "crawl_budget_summary" ->
           /\ out.bot_requests = 0 /\ out.bot_percentage = Frac(0, 1)
           /\ out.unique_bots = 0 /\ out.unique_pages_crawled = 0
      [] op = "googlebot_analysis" -> out = [error |-> "No bot activity found"]
      [] op = "response_time_analysis" -> out = [error |-> "No bot data available"]
      [] op = "identify_crawl_traps" -> out = <<>>
      [] OTHER -> out = EmptyFrame

\* C8: when no record is a bot record (the collection is empty or all of it
\* is non-bot), every query returns its empty or zero-valued result, and
\* googlebot_analysis and response_time_analysis a "no data" marker;
\* googlebot_analysis returns another marker when there are bot records but
\* none of a Googlebot.
C8_EmptyBotSubset ==
    /\ (result.op # "none" /\ BotIndices = {}) => EmptyAnswer(result.op, result.out)
    /\ (result.op = "googlebot_analysis" /\ BotIndices # {}
          /\ \A k \in BotIndices : df[k].bot_type \notin GooglebotNames) =>
         /\ result.out = [error |-> "No Googlebot activity found"]
         /\ result.out # [error |-> "No bot activity found"]

\* C8 witness: a collection of non-bot records only, and googlebot_analysis
\* has returned the marker of no bot activity.
C8_Witness ==
    /\ df # <<>> /\ BotIndices = {}
    /\ result.op = "googlebot_analysis"
    /\ result.out = [error |-> "No bot activity found"]

\* C9: the total_requests of the rows of bot_distribution sum to the size
\* of the bot subset, there is one row for each bot_type of the bot subset,
\* and in each row successful_requests, the number of the bot's records with
\* status 200, is at most total_requests.
C9_DistributionTotals ==
    result.op = "bot_distribution" =>
        LET rows == result.out
            Of(b) == { k \in BotIndices : df[k].bot_type = b }
        IN  /\ Sum(Column(rows, "total_requests")) = Cardinality(BotIndices)
            /\ \A i, j \in DOMAIN rows : i # j => rows[i].bot_type # rows[j].bot_type
            /\ { rows[i].bot_type : i \in DOMAIN rows } = { df[k].bot_type : k \in BotIndices }
            /\ \A i \in DOMAIN rows :
                 /\ rows[i].total_requests = Cardinality(Of(rows[i].bot_type))
                 /\ rows[i].successful_requests =
                      Cardinality({ k \in Of(rows[i].bot_type) : df[k].status = 200 })
                 /\ rows[i].successful_requests <= rows[i].total_requests

\* C9 witness: a distribution of at least two bot types, one of them with
\* some but not all of its requests successful.
C9_Witness ==
    /\ result.op = "bot_distribution"
    /\ Len(result.out) >= 2
    /\ \E i \in DOMAIN result.out :
         /\ result.out[i].successful_requests >= 1
         /\ result.out[i].successful_requests < result.out[i].total_requests

\* The first row of bot_df of a bot type.
FirstSeen(b) == CHOOSE k \in DOMAIN bot_df :
                   /\ bot_df[k].bot_type = b
                   /\ \A o \in 1..(k - 1) : bot_df[o].bot_type # b

BotCount(path) == Cardinality({ k \in BotIndices : df[k].path = path })

\* C11: identify_crawl_traps(threshold) returns exactly the distinct paths
\* whose number of bot records is strictly greater than threshold, each
\* once: a path with count equal to threshold is excluded, non-bot records
\* never count, and with /a seen 3 times and /b seen 2 times threshold = 2
\* yields only /a.
C11_Traps ==
    result.op = "identify_crawl_traps" =>
        LET out       == result.out
            threshold == result.args[1]
        IN  /\ \A i, j \in DOMAIN out : i # j => out[i] # out[j]
            /\ Range(out) = { p \in Range(Column(df, "path")) : BotCount(p) > threshold }
            /\ BotCount(p_a) = 3 /\ BotCount(p_b) = 2 /\ threshold = 2 => out = <<p_a>>

\* /a has three bot records and a browser record, /b two bot records, and
\* threshold = 2 was asked.
C11_Witness ==
    /\ result.op = "identify_crawl_traps"
    /\ result.args = <<2>>
    /\ BotCount(p_a) = 3 /\ BotCount(p_b) = 2
    /\ Len(df) > Len(bot_df)
    /\ result.out = <<p_a>>

\* The bot records of the held collection of one bot type, and those with
\* lo <= status < hi.
BotRecords(bot) == { k \in BotIndices : df[k].bot_type = bot }
BotRecordsIn(bot, lo, hi) ==
    { k \in BotRecords(bot) : lo <= df[k].status /\ df[k].status < hi }

\* C12: in status_code_analysis, for every bot_type row the 2xx, 3xx, 4xx
\* and 5xx columns are the numbers of that bot's records with status in
\* [200,300), [300,400), [400,500) and [500,600); a record with a status
\* outside 200..599 is counted in none of the four yet is counted in its
\* raw status column, and the raw columns of a row sum to the bot's number
\* of records.
C12_StatusCategories ==
    result.op = "status_code_analysis" =>
        \A i \in DOMAIN result.out :
            LET row == result.out[i]
                bot == row.bot_type
            IN  /\ row.c2xx = Cardinality(BotRecordsIn(bot, 200, 300))
                /\ row.c3xx = Cardinality(BotRecordsIn(bot, 300, 400))
                /\ row.c4xx = Cardinality(BotRecordsIn(bot, 400, 500))
                /\ row.c5xx = Cardinality(BotRecordsIn(bot, 500, 600))
                /\ \A k \in BotRecords(bot) :
                       /\ df[k].status \in DOMAIN row.counts
                       /\ row.counts[df[k].status] =
                            Cardinality({ o \in BotRecords(bot) : df[o].status = df[k].status })
                /\ SumColumns(row.counts, DOMAIN row.counts) = Cardinality(BotRecords(bot))
                /\ row.c2xx + row.c3xx + row.c4xx + row.c5xx
                     = Cardinality(BotRecords(bot))
                         - Cardinality({ k \in BotRecords(bot) :
                                           df[k].status < 200 \/ df[k].status >= 600 })

\* A bot with a record of status 600 and one of status 200, next to a bot
\* with a record of status 404.
C12_Witness ==
    /\ result.op = "status_code_analysis"
    /\ \E i, j \in DOMAIN result.out :
          /\ 600 \in DOMAIN result.out[i].counts
          /\ result.out[i].counts[600] = 1
          /\ result.out[i].c2xx = 1
          /\ result.out[i].c5xx = 0
          /\ result.out[j].c4xx >= 1

\* The paths of the bot records of the held collection, and the bot
\* records on one path.
BotPaths == { df[k].path : k \in BotIndices }
OnPath(path) == { k \in BotIndices : df[k].path = path }

\* C13: crawl_frequency_by_path(min_crawls) returns one row per path whose
\* bot-record count is >= min_crawls and no other, with crawl_count that
\* count and success_rate the percentage of the path's bot records with
\* status 200 rounded to 2 decimals, rows ordered by crawl_count descending
\* (three bot records with statuses 200, 200, 404 give 66.67).
C13_PathFrequency ==
    result.op = "crawl_frequency_by_path" =>
        LET out        == result.out
            min_crawls == result.args[1]
        IN  /\ \A i, j \in DOMAIN out : i # j => out[i].path # out[j].path
            /\ { out[i].path : i \in DOMAIN out }
                 = { p \in BotPaths : BotCount(p) >= min_crawls }
            /\ \A i \in DOMAIN out :
                  /\ out[i].crawl_count = BotCount(out[i].path)
                  /\ out[i].success_rate =
                       round2(Frac(Cardinality({ k \in OnPath(out[i].path) :
                                                   df[k].status = 200 }) * 100,
                                   BotCount(out[i].path)))
            /\ \A i, j \in DOMAIN out :
                  i < j => out[i].crawl_count >= out[j].crawl_count

\* The number of bot records of one bot type on a path, and the position
\* of the first of them in the held collection.
BotOnPath(bot, path) == Cardinality({ k \in OnPath(path) : df[k].bot_type = bot })
FirstOnPath(bot, path) ==
    CHOOSE k \in OnPath(path) :
        /\ df[k].bot_type = bot
        /\ \A o \in OnPath(path) : df[o].bot_type = bot => k <= o

\* The bot types with the most bot records on a path.
MostFrequent(path) ==
    { df[k].bot_type : k \in { o \in OnPath(path) :
          \A q \in OnPath(path) :
              BotOnPath(df[o].bot_type, path) >= BotOnPath(df[q].bot_type, path) } }

OnDate(date) == { k \in BotIndices : df[k].date = date }
RECURSIVE BytesOn(_)
BytesOn(rows) ==
    IF rows = {} THEN 0
    ELSE LET k == CHOOSE r \in rows : TRUE
         IN  df[k].bytes + BytesOn(rows \ {k})

\* The tallies of a date row of daily_crawl_report other than total_crawls.
DailyTallies(row) ==
    LET on == OnDate(row.date)
    IN  /\ row.successful = Cardinality({ k \in on : df[k].status = 200 })
        /\ row.errors_4xx =
             Cardinality({ k \in on : 400 <= df[k].status /\ df[k].status < 500 })
        /\ row.errors_5xx =
             Cardinality({ k \in on : 500 <= df[k].status /\ df[k].status < 600 })
        /\ row.unique_bots = Cardinality({ df[k].bot_type : k \in on })
        /\ row.total_bytes = BytesOn(on)

\* C15 as claimed: for every date row of daily_crawl_report, successful,
\* errors_4xx and errors_5xx are the tallies of that date's bot records
\* with status 200, in [400,500) and in [500,600), unique_bots the number
\* of distinct bot types, total_bytes the byte sum, and total_crawls equals
\* successful + errors_4xx + errors_5xx.
C15_TotalIsSumOfTallies ==
    result.op = "daily_crawl_report" =>
        \A i \in DOMAIN result.out :
            LET row == result.out[i]
            IN  /\ DailyTallies(row)
                /\ row.total_crawls = row.successful + row.errors_4xx + row.errors_5xx

\* C15 as amended: the tallies are as claimed, and total_crawls is the
\* number of that date's bot records, which is successful + errors_4xx +
\* errors_5xx plus the number of its records with any other status.
C15_DailyReport ==
    result.op = "daily_crawl_report" =>
        /\ { result.out[i].date : i \in DOMAIN result.out } = { df[k].date : k \in BotIndices }
        /\ \A i \in DOMAIN result.out :
              LET row == result.out[i]
                  on  == OnDate(row.date)
              IN  /\ DailyTallies(row)
                  /\ row.total_crawls = Cardinality(on)
                  /\ row.total_crawls =
                       row.successful + row.errors_4xx + row.errors_5xx
                       + Cardinality({ k \in on :
                            /\ df[k].status # 200
                            /\ ~(400 <= df[k].status /\ df[k].status < 600) })

\* A date with a bot record of status 600 next to a date with a successful
\* record and a 404 of two bot types.
C15_Witness ==
    /\ result.op = "daily_crawl_report"
    /\ \E i, j \in DOMAIN result.out :
          /\ result.out[i].total_crawls = 2
          /\ result.out[i].successful = 0
          /\ result.out[i].errors_4xx = 0 /\ result.out[i].errors_5xx = 0
          /\ result.out[j].successful = 1 /\ result.out[j].errors_4xx = 1
          /\ result.out[j].unique_bots = 2
          /\ result.out[j].total_bytes = 512

\* The bot records of the held collection on a path with a status.
ErrorsOn(path, status_code) ==
    { k \in BotIndices : df[k].path = path /\ df[k].status = status_code }

\* The bot types a bots_affected text lists: every other piece of it, the
\* pieces between them being the separator.
Listed(text) == [n \in 1..((Len(text) + 1) \div 2) |-> text[2 * n - 1]]

\* C16: get_error_pages(status_code) returns one row per path that has at
\* least one bot record with that status, with error_count the number of
\* such records and bots_affected listing each affected bot_type exactly
\* once in order of first encounter; the rows are sorted by error_count
\* descending and the error_counts sum to the number of bot records with
\* that status.
C16_ErrorPages ==
    result.op = "get_error_pages" =>
        LET out         == result.out
            status_code == result.args[1]
        IN  /\ \A i, j \in DOMAIN out : i # j => out[i].path # out[j].path
            /\ { out[i].path : i \in DOMAIN out }
                 = { df[k].path : k \in { o \in BotIndices : df[o].status = status_code } }
            /\ \A i \in DOMAIN out :
                  LET errors == ErrorsOn(out[i].path, status_code)
                      listed == Listed(out[i].bots_affected)
                  IN  /\ out[i].error_count = Cardinality(errors)
                      /\ Len(out[i].bots_affected) = 2 * Len(listed) - 1
                      /\ \A n \in 1..(Len(listed) - 1) :
                             out[i].bots_affected[2 * n] = ", "
                      /\ Range(listed) = { df[k].bot_type : k \in errors }
                      /\ \A m, n \in DOMAIN listed :
                             m < n =>
                               /\ listed[m] # listed[n]
                               /\ \E k \in errors :
                                     /\ df[k].bot_type = listed[m]
                                     /\ \A o \in errors :
                                            df[o].bot_type = listed[n] => k < o
            /\ \A i, j \in DOMAIN out : i < j => out[i].error_count >= out[j].error_count
            /\ Sum(Column(out, "error_count"))
                 = Cardinality({ k \in BotIndices : df[k].status = status_code })

\* A path with 404 records of two bot types ahead of a path with one 404
\* record; a browser's 404 is in the file too.
C16_Witness ==
    /\ result.op = "get_error_pages"
    /\ result.args = <<404>>
    /\ Len(result.out) = 2
    /\ result.out[1].error_count = 2
    /\ result.out[1].bots_affected = <<"bingbot", ", ", "ahrefs">>
    /\ result.out[2].error_count = 1
    /\ Len(df) > Len(bot_df)

\* C17: after construction, any sequence of queries, in any order and with
\* any parameters, leaves the held collection and the bot subset
\* unchanged, the bot subset is always the records of the collection with
\* is_bot true in their original order, and a query repeated with the
\* parameters of an answer the caller holds returns that answer again.
C17_QueriesArePure ==
    [][ /\ df' = df
        /\ bot_df' = bot_df
        /\ bot_df' = SelectSeq(df', LAMBDA r : r.is_bot)
        /\ (result = NoCall /\ result' # NoCall /\ result'.op \in DOMAIN answers) =>
              (answers[result'.op].args = result'.args =>
                  answers[result'.op].out = result'.out) ]_vars

\* The caller holds an answer of bot_distribution in which two bot types
\* tie and an answer of a query asked after it, and bot_distribution has
\* just answered again.
C17_Witness ==
    /\ result.op = "bot_distribution"
    /\ DOMAIN answers = {"bot_distribution", "time_series_analysis"}
    /\ answers["time_series_analysis"].args = <<"bingbot">>
    /\ Len(result.out) = 2
    /\ result.out[1].total_requests = result.out[2].total_requests
    /\ answers["bot_distribution"].out = result.out

\* C18: every bot name declared in BOT_PATTERNS is reachable: for each
\* declared name some user agent makes _identify_bot return it.  A user
\* agent that is given a name contains the name's pattern and no earlier
\* entry's pattern, and then so does the pattern taken as a user agent:
\* the name is reachable exactly when _identify_bot returns it for its own
\* pattern.
C18_EveryNameReachable ==
    \A k \in DOMAIN BOT_PATTERNS :
        (result.op = "_identify_bot" /\ user_agent = BOT_PATTERNS[k].pattern) =>
            result.out = BOT_PATTERNS[k].name

====
